---- MODULE Spec2Model ----
(***************************************************************************)
(* GRANDPA justification verification of the Substrate bridge module       *)
(* (modules/substrate/src/justification.rs).                               *)
(*                                                                         *)
(* Two specifications share this module:                                   *)
(*   Spec             verify_justification run statement by statement on   *)
(*                    proofs arranged and mutated the way the unit tests   *)
(*                    arrange and mutate make_justification_for_header_1;  *)
(*   FairAncestrySpec the loop of AncestryChain::ancestry run iteration by *)
(*                    iteration over arbitrary hash -> parent maps.        *)
(***************************************************************************)
EXTENDS Integers, Sequences, FiniteSets, TLC

\* ------------------------------------------------------------------ bounds

\* Highest block of the linear test chain header(0) .. header(MaxHeight).
MaxHeight == 4

\* Number of distinct hashes the maps of FairAncestrySpec range over.
NumHashes == 3

\* Longest header list a map of FairAncestrySpec is built from.
MaxAncestryHeaders == 3

\* ------------------------------------------------- constants of the source

TEST_GRANDPA_ROUND == 1

TEST_GRANDPA_SET_ID == 1

\* Ed25519Keyring authorities of tests::authorities_set, as authority ids.
Alice == 1

Bob == 2

Charlie == 3

\* An authority id that is not a member of the voter set.
Dave == Charlie + 1

\* Index of the header the test justification finalizes (header_id(1)).
TargetIndex == 1

\* Default::default() of a hash: the parent hash of header(0).
ZeroHash == 0

\* ------------------------------------------------------ headers and hashes

\* An index past the chain whose parent header(MaxHeight + 1) is never
\* supplied: the "unrelated" header(10) of the tests.
UnrelatedIndex == MaxHeight + 2

HashRadix == UnrelatedIndex + 1

\* Header::hash(): a hash of the header's contents.  It is modelled as an
\* injective function of (parent_hash, number), never zero.
hash(h) == h.parent_hash * HashRadix + h.number + 1

RECURSIVE header(_)
\* tests::header(index): block `index` of the linear chain.
header(index) ==
    [ number      |-> index,
      parent_hash |-> IF index = 0 THEN ZeroHash ELSE hash(header(index - 1)) ]

\* tests::header_id(index): (hash, number) of block `index`.
header_id(index) == <<hash(header(index)), index>>

\* ------------------------------------------------------------- signatures

\* AuthoritySignature::default(): the zeroed signature.
DefaultSignature == <<0, 0, 0, 0, 0>>

\* signer.sign(localized_payload(round, set_id, Message::Precommit(precommit))):
\* the signature binds the signer and every field of the signed payload.
Sign(signer, precommit, round, set_id) ==
    <<signer, precommit.target_hash, precommit.target_number, round, set_id>>

\* sp_finality_grandpa::check_message_signature_with_buffer.
check_message_signature(precommit, id, signature, round, set_id) ==
    signature = Sign(id, precommit, round, set_id)

\* tests::signed_precommit(signer, target): always signed for the test round
\* and the test set id.
signed_precommit(signer, target) ==
    LET precommit == [target_hash |-> target[1], target_number |-> target[2]]
    IN  [ precommit |-> precommit,
          signature |-> Sign(signer, precommit, TEST_GRANDPA_ROUND, TEST_GRANDPA_SET_ID),
          id        |-> signer ]

\* tests::authorities_set(): authority id -> weight.
authorities_set == [a \in {Alice, Bob, Charlie} |-> 1]

\* ------------------------------------------------------------------ codec

RECURSIVE Concat(_)
\* Concatenation of a sequence of word sequences.
Concat(ss) == IF ss = <<>> THEN <<>> ELSE Head(ss) \o Concat(Tail(ss))

\* Encode of SignedPrecommit: precommit {target_hash, target_number},
\* signature, id, in field order.
EncodeSigned(sp) ==
    <<sp.precommit.target_hash, sp.precommit.target_number>> \o sp.signature \o <<sp.id>>

\* Encode of a Header: the fields the verifier reads or hashes.
EncodeHeader(h) == <<h.parent_hash, h.number>>

\* #[derive(Encode)] of GrandpaJustification: round, commit {target_hash,
\* target_number, precommits}, votes_ancestries; a Vec is its length followed
\* by its elements.
Encode(j) ==
    <<j.round, j.commit.target_hash, j.commit.target_number, Len(j.commit.precommits)>>
    \o Concat([k \in DOMAIN j.commit.precommits |-> EncodeSigned(j.commit.precommits[k])])
    \o <<Len(j.votes_ancestries)>>
    \o Concat([k \in DOMAIN j.votes_ancestries |-> EncodeHeader(j.votes_ancestries[k])])

SignedWidth == Len(EncodeSigned(signed_precommit(Alice, header_id(0))))

HeaderWidth == Len(EncodeHeader(header(0)))

\* Words before the first precommit: round, target_hash, target_number and
\* the length of precommits.
PrefixWidth == Len(Encode([round |-> 0,
                           commit |-> [target_hash |-> 0, target_number |-> 0,
                                       precommits |-> <<>>],
                           votes_ancestries |-> <<>>])) - 1

DecodeSigned(w) ==
    [ precommit |-> [target_hash |-> w[1], target_number |-> w[2]],
      signature |-> SubSeq(w, 3, SignedWidth - 1),
      id        |-> w[SignedWidth] ]

DecodeHeader(w) == [number |-> w[2], parent_hash |-> w[1]]

\* The value of a failed decode.
NoJustification ==
    [ round |-> 0,
      commit |-> [target_hash |-> 0, target_number |-> 0, precommits |-> <<>>],
      votes_ancestries |-> <<>> ]

DecodeFailure == [ok |-> FALSE, value |-> NoJustification, rest |-> <<>>]

\* GrandpaJustification::decode(&mut &raw[..]): reads the fields in order from
\* the front of the input and fails when the input ends before a field does.
\* `rest` is what the input still holds after the last field; Decode::decode
\* (unlike DecodeAll::decode_all) does not look at it.
Decode(raw) ==
    IF Len(raw) < PrefixWidth THEN DecodeFailure
    ELSE
      LET np   == raw[PrefixWidth]
          pEnd == PrefixWidth + np * SignedWidth
      IN  IF Len(raw) < pEnd + 1 THEN DecodeFailure
          ELSE
            LET nh   == raw[pEnd + 1]
                hEnd == pEnd + 1 + nh * HeaderWidth
            IN  IF Len(raw) < hEnd THEN DecodeFailure
                ELSE
                  [ ok    |-> TRUE,
                    value |->
                      [ round  |-> raw[1],
                        commit |->
                          [ target_hash   |-> raw[2],
                            target_number |-> raw[3],
                            precommits    |->
                              [k \in 1..np |->
                                 DecodeSigned(SubSeq(raw,
                                     PrefixWidth + (k - 1) * SignedWidth + 1,
                                     PrefixWidth + k * SignedWidth))] ],
                        votes_ancestries |->
                          [k \in 1..nh |->
                             DecodeHeader(SubSeq(raw,
                                 pEnd + 1 + (k - 1) * HeaderWidth + 1,
                                 pEnd + 1 + k * HeaderWidth))] ],
                    rest  |-> SubSeq(raw, hEnd + 1, Len(raw)) ]

\* --------------------------------------------------------- AncestryChain

\* The (hash, parent_hash) pairs AncestryChain::new maps the headers to.
HeaderEntries(headers) ==
    [k \in DOMAIN headers |-> <<hash(headers[k]), headers[k].parent_hash>>]

\* collect() into a BTreeMap: of two pairs with one key the later one stays.
Collect(entries) ==
    [ key \in {entries[k][1] : k \in DOMAIN entries} |->
        LET last == CHOOSE k \in DOMAIN entries :
                      /\ entries[k][1] = key
                      /\ \A m \in DOMAIN entries : entries[m][1] = key => m <= k
        IN  entries[last][2] ]

\* AncestryChain::new(&votes_ancestries).
AncestryChain_new(headers) == Collect(HeaderEntries(headers))

\* Mutant of RemoveBase: the base is left on the route.
RemoveBaseKept(route) == route

\* route.pop(): drops the last hash pushed, the base; nothing on an empty route.
RemoveBase(route) ==
    IF route = <<>> THEN route ELSE SubSeq(route, 1, Len(route) - 1)

NotDescendent == [ok |-> FALSE, route |-> <<>>]

RECURSIVE Walk(_, _, _, _)
\* The loop of AncestryChain::ancestry from `current_hash` on.
Walk(chain, base, current_hash, route) ==
    IF current_hash = base THEN [ok |-> TRUE, route |-> RemoveBase(route)]
    ELSE IF current_hash \in DOMAIN chain
         THEN Walk(chain, base, chain[current_hash], Append(route, chain[current_hash]))
         ELSE NotDescendent

\* AncestryChain::ancestry(base, block), for the maps of hash-linked headers
\* (on which the loop ends).
ancestry(chain, base, block) == Walk(chain, base, block, <<>>)

\* ------------------------------------------ finality_grandpa primitives

RECURSIVE TotalWeight(_, _)
TotalWeight(voters, ids) ==
    IF ids = {} THEN 0
    ELSE LET a == CHOOSE x \in ids : TRUE
         IN  voters[a] + TotalWeight(voters, ids \ {a})

\* VoterSet::threshold(): total weight less the tolerated faulty weight.
threshold(voters) ==
    LET total == TotalWeight(voters, DOMAIN voters)
    IN  total - ((total - 1) \div 3)

\* finality_grandpa::validate_commit(commit, voters, chain), as far as
\* result.ghost().is_some() depends on it: every precommit is at or above the
\* commit target and has a route to it in `chain`; each voter of the set who
\* precommitted counts once with its weight (a vote of a non-member counts
\* nothing, an equivocator still counts); a ghost exists when that weight
\* reaches the threshold.  Signatures are not verified.
validate_commit(commit, voters, chain) ==
    LET pcs == commit.precommits
        all_precommits_higher_than_target ==
            \A k \in DOMAIN pcs :
               /\ pcs[k].precommit.target_number >= commit.target_number
               /\ ancestry(chain, commit.target_hash, pcs[k].precommit.target_hash).ok
        voted == {pcs[k].id : k \in DOMAIN pcs} \cap DOMAIN voters
    IN  [ ghost_is_some |->
            /\ all_precommits_higher_than_target
            /\ TotalWeight(voters, voted) >= threshold(voters) ]

\* ------------------------------------------------------------------ state

VARIABLES
    \* arguments of verify_justification (the voter set is authorities_set)
    finalized_target, authorities_set_id, raw_justification,
    \* position in verify_justification and its locals
    pc, justification, ancestry_chain, next_vote, visited_hashes,
    \* the returned Result, "none" while the call runs
    verdict,
    \* history: the checks the call has run so far, in order
    checks,
    \* test harness: the change made to the arranged proof, and the call before it
    mutation, before,
    \* AncestryChain::ancestry (FairAncestrySpec): self.ancestry, the arguments,
    \* the locals, the position and the returned Result
    parents, base, block, current_hash, route, loop_pc, loop_result

verifyVars ==
    <<finalized_target, authorities_set_id, raw_justification, pc, justification,
      ancestry_chain, next_vote, visited_hashes, verdict, checks, mutation, before>>

loopVars == <<parents, base, block, current_hash, route, loop_pc, loop_result>>

vars == <<verifyVars, loopVars>>

\* A check of the history: which check, and of which vote (0: of the proof).
Check(name, vote) == [check |-> name, vote |-> vote]

NoMutation == [op |-> "none", arg |-> 0]

NoCall == [ verdict |-> "none", raw_justification |-> <<>>,
            finalized_target |-> <<0, 0>>, authorities_set_id |-> 0 ]

\* The state in which a call of verify_justification starts.
CallStarts ==
    /\ pc' = "decode"
    /\ justification' = NoJustification
    /\ ancestry_chain' = <<>>
    /\ next_vote' = 0
    /\ visited_hashes' = {}
    /\ verdict' = "none"
    /\ checks' = <<>>

\* return Err(e) / Ok(()).
Return(v) ==
    /\ pc' = "done"
    /\ verdict' = v

\* ------------------------------------------------ arranged proofs (tests)

\* Headers a proof of the harness may carry: the descendants of the target
\* on the chain, and the unrelated header.
HeaderIndices == ((TargetIndex + 1) .. MaxHeight) \cup {UnrelatedIndex}

RECURSIVE HeadersOf(_)
\* The headers of a set of indices, in increasing order.
HeadersOf(indices) ==
    IF indices = {} THEN <<>>
    ELSE LET least == CHOOSE i \in indices : \A m \in indices : i <= m
         IN  <<header(least)>> \o HeadersOf(indices \ {least})

\* tests::make_justification_for_header_1 with the three precommits for
\* header_id(a), header_id(b), header_id(c) and the given votes_ancestries:
\* the test's own proof is Arranged(2, 3, 4, {2, 3, 4}).
Arranged(a, b, c, indices) ==
    [ round  |-> TEST_GRANDPA_ROUND,
      commit |->
        [ target_hash   |-> header_id(TargetIndex)[1],
          target_number |-> header_id(TargetIndex)[2],
          precommits    |-> << signed_precommit(Alice, header_id(a)),
                               signed_precommit(Bob, header_id(b)),
                               signed_precommit(Charlie, header_id(c)) >> ],
      votes_ancestries |-> HeadersOf(indices) ]

LoopIdle ==
    /\ parents = <<>>
    /\ base = 0
    /\ block = 0
    /\ current_hash = 0
    /\ route = <<>>
    /\ loop_pc = "idle"
    /\ loop_result = "none"

Init ==
    /\ finalized_target = header_id(TargetIndex)
    /\ authorities_set_id = TEST_GRANDPA_SET_ID
    /\ \E a, b, c \in TargetIndex .. MaxHeight, indices \in SUBSET HeaderIndices :
          raw_justification = Encode(Arranged(a, b, c, indices))
    /\ pc = "decode"
    /\ justification = NoJustification
    /\ ancestry_chain = <<>>
    /\ next_vote = 0
    /\ visited_hashes = {}
    /\ verdict = "none"
    /\ checks = <<>>
    /\ mutation = NoMutation
    /\ before = NoCall
    /\ LoopIdle

\* ------------------------------------------------- verify_justification

\* decode justification first
DecodeStep ==
    /\ pc = "decode"
    /\ LET decoded == Decode(raw_justification)
       IN  /\ checks' = Append(checks, Check("decode", 0))
           /\ IF decoded.ok
              THEN /\ justification' = decoded.value
                   /\ pc' = "target"
                   /\ UNCHANGED verdict
              ELSE /\ Return("JustificationDecode")
                   /\ UNCHANGED justification
    /\ UNCHANGED <<finalized_target, authorities_set_id, raw_justification,
                   ancestry_chain, next_vote, visited_hashes, mutation, before>>
    /\ UNCHANGED loopVars

\* Mutant of TargetDiffers: only the hashes are compared.
TargetHashDiffers(j, target) == j.commit.target_hash # target[1]

\* (justification.commit.target_hash, justification.commit.target_number) != finalized_target
TargetDiffers(j, target) ==
    <<j.commit.target_hash, j.commit.target_number>> # target

\* ensure that it is justification for the expected header
TargetStep ==
    /\ pc = "target"
    /\ checks' = Append(checks, Check("target", 0))
    /\ IF TargetDiffers(justification, finalized_target)
       THEN Return("InvalidJustificationTarget")
       ELSE /\ pc' = "commit"
            /\ UNCHANGED verdict
    /\ UNCHANGED <<finalized_target, authorities_set_id, raw_justification,
                   justification, ancestry_chain, next_vote, visited_hashes,
                   mutation, before>>
    /\ UNCHANGED loopVars

\* Mutant of AfterVote: only the first precommit's signature is verified.
AfterVoteUnverified(k) ==
    IF k < Len(justification.commit.precommits)
    THEN (IF k = 0 THEN "signature" ELSE "route")
    ELSE "ancestries"

\* for signed in &justification.commit.precommits: the position after the
\* precommit at `k` is done, the next precommit or the comparison after the loop.
AfterVote(k) == IF k < Len(justification.commit.precommits) THEN "signature" ELSE "ancestries"

\* Mutant of CommitAccepted: the commit is not validated.
CommitTrusted(commit, chain) == TRUE

\* Ok(ref result) if result.ghost().is_some() => {}
CommitAccepted(commit, chain) ==
    validate_commit(commit, authorities_set, chain).ghost_is_some

\* validate commit of the justification (it just assumes all signatures are valid)
CommitStep ==
    /\ pc = "commit"
    /\ checks' = Append(checks, Check("commit", 0))
    /\ ancestry_chain' = AncestryChain_new(justification.votes_ancestries)
    /\ IF CommitAccepted(justification.commit, ancestry_chain')
       THEN /\ pc' = AfterVote(0)
            /\ next_vote' = 1
            /\ visited_hashes' = {}
            /\ UNCHANGED verdict
       ELSE /\ Return("InvalidJustificationCommit")
            /\ UNCHANGED <<next_vote, visited_hashes>>
    /\ UNCHANGED <<finalized_target, authorities_set_id, raw_justification,
                   justification, mutation, before>>
    /\ UNCHANGED loopVars

\* Mutant of SignatureRejected: no signature is verified.
SignatureTrusted(signed, round, set_id) == FALSE

\* Mutant of SignatureRejected: the authority id is not part of what is verified.
SignatureOfAnyone(signed, round, set_id) ==
    \A id \in {Alice, Bob, Charlie, Dave} :
       ~check_message_signature(signed.precommit, id, signed.signature, round, set_id)

\* !check_message_signature_with_buffer(&Message::Precommit(signed.precommit),
\* &signed.id, &signed.signature, justification.round, authorities_set_id, &mut buf)
SignatureRejected(signed, round, set_id) ==
    ~check_message_signature(signed.precommit, signed.id, signed.signature, round, set_id)

\* check authorities signatures: the precommit at next_vote
SignatureStep ==
    /\ pc = "signature"
    /\ LET signed == justification.commit.precommits[next_vote]
       IN  /\ checks' = Append(checks, Check("signature", next_vote))
           /\ IF SignatureRejected(signed, justification.round, authorities_set_id)
              THEN Return("InvalidAuthoritySignature")
              ELSE /\ pc' = "route"
                   /\ UNCHANGED verdict
    /\ UNCHANGED <<finalized_target, authorities_set_id, raw_justification,
                   justification, ancestry_chain, next_vote, visited_hashes,
                   mutation, before>>
    /\ UNCHANGED loopVars

\* Mutant of Visit: the precommit target itself is not marked visited.
VisitRouteOnly(visited, signed, found_route) ==
    visited \cup {found_route[k] : k \in DOMAIN found_route}

\* visited_hashes.insert(signed.precommit.target_hash); visited_hashes.extend(route);
Visit(visited, signed, found_route) ==
    visited \cup {signed.precommit.target_hash}
      \cup {found_route[k] : k \in DOMAIN found_route}

\* the rest of the loop body for the precommit at next_vote: `continue` for a
\* vote for the commit target, else the route from the vote to the target
RouteStep ==
    /\ pc = "route"
    /\ LET signed == justification.commit.precommits[next_vote]
           found  == ancestry(ancestry_chain, justification.commit.target_hash,
                              signed.precommit.target_hash)
       IN  IF justification.commit.target_hash = signed.precommit.target_hash
           THEN /\ pc' = AfterVote(next_vote)
                /\ next_vote' = next_vote + 1
                /\ UNCHANGED <<visited_hashes, verdict, checks>>
           ELSE /\ checks' = Append(checks, Check("route", next_vote))
                /\ IF found.ok
                   THEN /\ visited_hashes' = Visit(visited_hashes, signed, found.route)
                        /\ pc' = AfterVote(next_vote)
                        /\ next_vote' = next_vote + 1
                        /\ UNCHANGED verdict
                   ELSE /\ Return("InvalidPrecommitAncestryProof")
                        /\ UNCHANGED <<next_vote, visited_hashes>>
    /\ UNCHANGED <<finalized_target, authorities_set_id, raw_justification,
                   justification, ancestry_chain, mutation, before>>
    /\ UNCHANGED loopVars

\* ancestry_hashes: the hashes of the headers of votes_ancestries, as a set.
AncestryHashes(headers) == {hash(headers[k]) : k \in DOMAIN headers}

\* Mutant of AncestriesDiffer: headers no vote used are let through.
AncestriesMissing(visited, headers) == ~(visited \subseteq AncestryHashes(headers))

\* visited_hashes != ancestry_hashes
AncestriesDiffer(visited, headers) == visited # AncestryHashes(headers)

\* if visited_hashes != ancestry_hashes { Err(..) } else { Ok(()) }
AncestriesStep ==
    /\ pc = "ancestries"
    /\ checks' = Append(checks, Check("ancestries", 0))
    /\ IF AncestriesDiffer(visited_hashes, justification.votes_ancestries)
       THEN Return("InvalidPrecommitAncestries")
       ELSE Return("Ok")
    /\ UNCHANGED <<finalized_target, authorities_set_id, raw_justification,
                   justification, ancestry_chain, next_vote, visited_hashes,
                   mutation, before>>
    /\ UNCHANGED loopVars

\* -------------------------------------------- the changes the tests make

\* The proof the harness arranged, as the tests hold it before encode().
Proof == Decode(raw_justification).value

\* A test changes one thing of the arranged call and verifies again: the call
\* with the arguments given here starts, and `before` keeps the call it follows.
Rerun(op, arg, target, set_id, raw) ==
    /\ pc = "done"
    /\ mutation' = [op |-> op, arg |-> arg]
    /\ before' = [ verdict            |-> verdict,
                   raw_justification  |-> raw_justification,
                   finalized_target   |-> finalized_target,
                   authorities_set_id |-> authorities_set_id ]
    /\ finalized_target' = target
    /\ authorities_set_id' = set_id
    /\ raw_justification' = raw
    /\ CallStarts
    /\ UNCHANGED loopVars

\* Expected targets other than the commit's: another block, the same hash at
\* another number, another hash at the same number.
OtherTargets ==
    << header_id(TargetIndex + 1),
       <<header_id(TargetIndex)[1], TargetIndex + 1>>,
       <<header_id(TargetIndex + 1)[1], TargetIndex>> >>

\* justification_with_invalid_target_rejected: the caller expects another
\* target, for the arranged proof or for one whose signature was replaced.
ExpectOtherTarget ==
    /\ mutation.op \in {"none", "signature"}
    /\ \E n \in DOMAIN OtherTargets :
       Rerun("target", n, OtherTargets[n], authorities_set_id, raw_justification)

\* The caller verifies against another authority set id.
ExpectOtherSetId ==
    /\ mutation = NoMutation
    /\ Rerun("set_id", 0, finalized_target, authorities_set_id + 1, raw_justification)

\* justification_with_invalid_commit_rejected: commit.precommits.clear().
ClearPrecommits ==
    /\ mutation = NoMutation
    /\ Rerun("clear", 0, finalized_target, authorities_set_id,
          Encode([Proof EXCEPT !.commit.precommits = <<>>]))

\* Signatures that do not verify for the precommit `signed` in the given round
\* and set: the zeroed one, the authority's own for another round, and
\* another key's.
BadSignatures(signed, round, set_id) ==
    {DefaultSignature, Sign(signed.id, signed.precommit, round + 1, set_id)}
      \cup {Sign(signer, signed.precommit, round, set_id) : signer \in {Dave} \ {signed.id}}

\* justification_with_invalid_authority_signature_rejected:
\* commit.precommits[k].signature = Default::default(), for any k and any
\* signature that does not verify.
ReplaceSignature ==
    /\ mutation = NoMutation
    /\ \E k \in DOMAIN Proof.commit.precommits :
       \E bad \in BadSignatures(Proof.commit.precommits[k], Proof.round, authorities_set_id) :
          Rerun("signature", k, finalized_target, authorities_set_id,
                Encode([Proof EXCEPT !.commit.precommits[k].signature = bad]))

\* The precommit at k declares another authority than the one that signed it.
ChangeAuthority ==
    /\ mutation = NoMutation
    /\ \E k \in DOMAIN Proof.commit.precommits :
       \E id \in {Alice, Bob, Charlie, Dave} \ {Proof.commit.precommits[k].id} :
          Rerun("authority", k, finalized_target, authorities_set_id,
                Encode([Proof EXCEPT !.commit.precommits[k].id = id]))

\* One more precommit, validly signed by any authority for any block.
PushPrecommit ==
    /\ mutation = NoMutation
    /\ \E signer \in {Alice, Bob, Charlie, Dave}, i \in 0 .. MaxHeight :
       Rerun("push_precommit", signer, finalized_target, authorities_set_id,
             Encode([Proof EXCEPT !.commit.precommits =
                        Append(@, signed_precommit(signer, header_id(i)))]))

\* The proof names another round than the one the precommits were signed in.
ChangeRound ==
    /\ mutation = NoMutation
    /\ Rerun("round", 0, finalized_target, authorities_set_id,
          Encode([Proof EXCEPT !.round = @ + 1]))

\* justification_with_invalid_precommit_ancestry: votes_ancestries.push(header(i)).
PushHeader ==
    /\ mutation = NoMutation
    /\ \E i \in HeaderIndices :
       Rerun("push_header", i, finalized_target, authorities_set_id,
             Encode([Proof EXCEPT !.votes_ancestries = Append(@, header(i))]))

\* votes_ancestries.remove(k).
RemoveHeader ==
    /\ mutation = NoMutation
    /\ \E k \in DOMAIN Proof.votes_ancestries :
       Rerun("remove_header", k, finalized_target, authorities_set_id,
             Encode([Proof EXCEPT !.votes_ancestries =
                        SubSeq(@, 1, k - 1) \o SubSeq(@, k + 1, Len(@))]))

\* justification_with_invalid_encoding_rejected verifies &[]; here any proper
\* prefix of the encoding.
Truncate ==
    /\ mutation = NoMutation
    /\ \E n \in 0 .. (Len(raw_justification) - 1) :
       Rerun("truncate", n, finalized_target, authorities_set_id,
             SubSeq(raw_justification, 1, n))

\* The encoding followed by one more word.
AppendTrailing ==
    /\ mutation = NoMutation
    /\ \E w \in {0, 1} :
       Rerun("trailing", w, finalized_target, authorities_set_id,
             Append(raw_justification, w))

Next ==
    \/ DecodeStep
    \/ TargetStep
    \/ CommitStep
    \/ SignatureStep
    \/ RouteStep
    \/ AncestriesStep
    \/ ExpectOtherTarget
    \/ ExpectOtherSetId
    \/ ClearPrecommits
    \/ ReplaceSignature
    \/ ChangeAuthority
    \/ PushPrecommit
    \/ ChangeRound
    \/ PushHeader
    \/ RemoveHeader
    \/ Truncate
    \/ AppendTrailing

Spec == Init /\ [][Next]_vars

\* ------------------------------- AncestryChain::ancestry, step by step

\* The hashes of FairAncestrySpec; ZeroHash is the hash of no header.
Hashes == 1 .. NumHashes

\* Any (hash, parent_hash) pairs: AncestryChain is generic in the header
\* type, and nothing in it relies on how a header's hash comes about.
AnyEntries ==
    UNION { [1 .. n -> Hashes \X ({ZeroHash} \cup Hashes)] : n \in 0 .. MaxAncestryHeaders }

\* Pushes the model records.  A walk that pushed more hashes than there are
\* has been at one hash twice and goes round for ever; the loop then goes on
\* and only the record of its pushes stops growing.
RouteCap == NumHashes + 2

VerifyIdle ==
    /\ finalized_target = <<0, 0>>
    /\ authorities_set_id = 0
    /\ raw_justification = <<>>
    /\ pc = "idle"
    /\ justification = NoJustification
    /\ ancestry_chain = <<>>
    /\ next_vote = 0
    /\ visited_hashes = {}
    /\ verdict = "none"
    /\ checks = <<>>
    /\ mutation = NoMutation
    /\ before = NoCall

\* ancestry(base, block) is entered: route is empty, current_hash is block.
AncestryInit ==
    /\ VerifyIdle
    /\ \E entries \in AnyEntries : parents = Collect(entries)
    /\ base \in {ZeroHash} \cup Hashes
    /\ block \in {ZeroHash} \cup Hashes
    /\ current_hash = block
    /\ route = <<>>
    /\ loop_pc = "loop"
    /\ loop_result = "none"

\* if current_hash == base { break; }  route.pop();  Ok(route)
LoopBreak ==
    /\ loop_pc = "loop"
    /\ current_hash = base
    /\ route' = RemoveBase(route)
    /\ loop_result' = "Ok"
    /\ loop_pc' = "done"
    /\ UNCHANGED <<parents, base, block, current_hash>>
    /\ UNCHANGED verifyVars

\* current_hash != base: on to self.ancestry.get(&current_hash)
LoopLookup ==
    /\ loop_pc = "loop"
    /\ current_hash # base
    /\ loop_pc' = "get"
    /\ UNCHANGED <<parents, base, block, current_hash, route, loop_result>>
    /\ UNCHANGED verifyVars

\* Some(parent_hash) => { current_hash = parent_hash; route.push(current_hash); }
LoopStep ==
    /\ loop_pc = "get"
    /\ current_hash \in DOMAIN parents
    /\ current_hash' = parents[current_hash]
    /\ route' = IF Len(route) < RouteCap THEN Append(route, current_hash') ELSE route
    /\ loop_pc' = "loop"
    /\ UNCHANGED <<parents, base, block, loop_result>>
    /\ UNCHANGED verifyVars

\* _ => return Err(GrandpaError::NotDescendent)
LoopFail ==
    /\ loop_pc = "get"
    /\ current_hash \notin DOMAIN parents
    /\ route' = <<>>
    /\ loop_result' = "NotDescendent"
    /\ loop_pc' = "done"
    /\ UNCHANGED <<parents, base, block, current_hash>>
    /\ UNCHANGED verifyVars

AncestryNext ==
    \/ LoopBreak
    \/ LoopLookup
    \/ LoopStep
    \/ LoopFail

\* The loop is not suspended: an iteration that can run does run.
FairAncestrySpec == AncestryInit /\ [][AncestryNext]_vars /\ WF_vars(AncestryNext)

\* ------------------------------------------------- what the claims speak of

\* The proof a call decodes from its input.
Decoded(raw) == Decode(raw).value

\* The input is exactly the encoding of one justification.
ExactEncoding(raw) ==
    /\ Decode(raw).ok
    /\ Decode(raw).rest = <<>>
    /\ Encode(Decoded(raw)) = raw

TargetMatches(j, target) ==
    <<j.commit.target_hash, j.commit.target_number>> = target

CommitHasGhost(j) ==
    validate_commit(j.commit, authorities_set,
                    AncestryChain_new(j.votes_ancestries)).ghost_is_some

SignatureVerifies(j, set_id, k) ==
    LET signed == j.commit.precommits[k]
    IN  check_message_signature(signed.precommit, signed.id, signed.signature,
                                j.round, set_id)

\* The precommit at k is for a block other than the commit target.
VotesBeyondTarget(j, k) ==
    j.commit.precommits[k].precommit.target_hash # j.commit.target_hash

RouteOf(j, k) ==
    ancestry(AncestryChain_new(j.votes_ancestries), j.commit.target_hash,
             j.commit.precommits[k].precommit.target_hash)

AllSignaturesVerify(j, set_id) ==
    \A k \in DOMAIN j.commit.precommits : SignatureVerifies(j, set_id, k)

AllRoutesResolve(j) ==
    \A k \in DOMAIN j.commit.precommits : VotesBeyondTarget(j, k) => RouteOf(j, k).ok

\* The used hashes: each vote target that differs from the commit target,
\* and every hash on its route to the commit target.
UsedHashes(j) ==
    UNION { {j.commit.precommits[k].precommit.target_hash}
              \cup {RouteOf(j, k).route[n] : n \in DOMAIN RouteOf(j, k).route}
            : k \in {m \in DOMAIN j.commit.precommits : VotesBeyondTarget(j, m)} }

Ran(name) == \E n \in DOMAIN checks : checks[n].check = name

\* ------------------------------------------------------------------- C1

\* C1: verify_justification returns Ok only if the decoded proof's commit
\* target equals the expected pair, commit validation yields a ghost, every
\* signature verifies under its declared id, the proof's round and the
\* caller's set id, and every vote beyond the commit target has a route to it.
OkOnlyIfEveryCheckHolds ==
    (pc = "done" /\ verdict = "Ok") =>
        /\ Decode(raw_justification).ok
        /\ TargetMatches(Decoded(raw_justification), finalized_target)
        /\ CommitHasGhost(Decoded(raw_justification))
        /\ AllSignaturesVerify(Decoded(raw_justification), authorities_set_id)
        /\ AllRoutesResolve(Decoded(raw_justification))

\* An accepted proof with a vote beyond the commit target.
OkWitness ==
    /\ pc = "done"
    /\ verdict = "Ok"
    /\ \E k \in DOMAIN justification.commit.precommits :
          VotesBeyondTarget(justification, k)

\* ------------------------------------------------------------------- C2

\* The three blocks above the expected target on the linear chain.
Descendants == {header(finalized_target[2] + n) : n \in 1 .. 3}

\* The proof of the claim: commit target = expected target at height N; the
\* three authorities each validly sign one precommit, for distinct blocks of
\* heights N+1..N+3 of one chain; votes_ancestries holds those blocks'
\* headers and nothing else.
WellFormed(raw, target, set_id) ==
    LET j   == Decoded(raw)
        pcs == j.commit.precommits
    IN  /\ ExactEncoding(raw)
        /\ target = header_id(target[2])
        /\ TargetMatches(j, target)
        /\ Len(pcs) = Cardinality(DOMAIN authorities_set)
        /\ {pcs[k].id : k \in DOMAIN pcs} = DOMAIN authorities_set
        /\ \A a, b \in DOMAIN authorities_set : authorities_set[a] = authorities_set[b]
        /\ AllSignaturesVerify(j, set_id)
        /\ { <<pcs[k].precommit.target_hash, pcs[k].precommit.target_number>>
               : k \in DOMAIN pcs }
             = { <<hash(h), h.number>> : h \in Descendants }
        /\ {j.votes_ancestries[k] : k \in DOMAIN j.votes_ancestries} = Descendants

\* C2: a well-formed proof (target at height N, three equally weighted
\* authorities validly precommitting for distinct descendants at N+1..N+3 of
\* one chain, exactly those headers supplied) is accepted with Ok.
WellFormedAccepted ==
    (pc = "done" /\ WellFormed(raw_justification, finalized_target, authorities_set_id))
        => verdict = "Ok"

WellFormedWitness ==
    /\ pc = "done"
    /\ WellFormed(raw_justification, finalized_target, authorities_set_id)
    /\ Ran("ancestries")

\* ------------------------------------------------------------------- C3

WrongTarget ==
    /\ Decode(raw_justification).ok
    /\ ~TargetMatches(Decoded(raw_justification), finalized_target)

\* C3: a decoded proof whose commit target differs from the expected pair in
\* hash or number is rejected with InvalidJustificationTarget, and no commit,
\* signature or ancestry check runs in that call.
WrongTargetRejectedFirst ==
    WrongTarget =>
        /\ ~Ran("commit") /\ ~Ran("signature") /\ ~Ran("route") /\ ~Ran("ancestries")
        /\ pc = "done" => verdict = "InvalidJustificationTarget"

\* A wrong target on a proof with a signature that does not verify.
WrongTargetWitness ==
    /\ pc = "done"
    /\ WrongTarget
    /\ verdict = "InvalidJustificationTarget"
    /\ ~AllSignaturesVerify(Decoded(raw_justification), authorities_set_id)

\* ------------------------------------------------------------------- C4

\* C4: replacing, in a proof that verified with Ok, the signature of any one
\* vote by one that does not verify makes the call return
\* InvalidAuthoritySignature.
BadSignatureRejected ==
    (pc = "done" /\ mutation.op = "signature" /\ before.verdict = "Ok")
        => verdict = "InvalidAuthoritySignature"

\* The signature of the last vote of an accepted proof was replaced.
BadSignatureWitness ==
    /\ pc = "done"
    /\ mutation.op = "signature"
    /\ before.verdict = "Ok"
    /\ mutation.arg = Len(justification.commit.precommits)
    /\ mutation.arg > 1

\* ------------------------------------------------------------------- C5

\* Decode, target, commit, every signature and every route pass.
ReachesComparison(raw, target, set_id) ==
    /\ Decode(raw).ok
    /\ TargetMatches(Decoded(raw), target)
    /\ CommitHasGhost(Decoded(raw))
    /\ AllSignaturesVerify(Decoded(raw), set_id)
    /\ AllRoutesResolve(Decoded(raw))

\* The header pushed by the last change is on no vote's path of the proof
\* it was pushed to.
PushedUnusedHeader ==
    /\ mutation.op = "push_header"
    /\ before.verdict = "Ok"
    /\ hash(header(mutation.arg)) \notin UsedHashes(Decoded(before.raw_justification))

\* C5: when every earlier check passes, the call returns Ok exactly when the
\* set of hashes of votes_ancestries equals the set of used hashes, and
\* InvalidPrecommitAncestries otherwise; one header on no vote's path added to
\* an accepted proof gives InvalidPrecommitAncestries.
ExactAncestries ==
    pc = "done" =>
        /\ ReachesComparison(raw_justification, finalized_target, authorities_set_id) =>
              verdict =
                IF AncestryHashes(Decoded(raw_justification).votes_ancestries)
                     = UsedHashes(Decoded(raw_justification))
                THEN "Ok" ELSE "InvalidPrecommitAncestries"
        /\ PushedUnusedHeader => verdict = "InvalidPrecommitAncestries"

\* A header of the chain above every vote was pushed to an accepted proof.
UnusedHeaderWitness ==
    /\ pc = "done"
    /\ PushedUnusedHeader
    /\ mutation.arg # UnrelatedIndex
    /\ verdict = "InvalidPrecommitAncestries"

\* ------------------------------------------------------------------- C6

\* The last change removed, from a proof that verified with Ok, a header some
\* vote's path depends on: its hash was used and no other header supplies it.
RemovedNeededHeader ==
    /\ mutation.op = "remove_header"
    /\ before.verdict = "Ok"
    /\ LET old  == Decoded(before.raw_justification)
           gone == hash(old.votes_ancestries[mutation.arg])
       IN  /\ gone \in UsedHashes(old)
           /\ gone \notin AncestryHashes(Decoded(raw_justification).votes_ancestries)

\* C6 as claimed: removing a needed header from an accepted proof gives
\* InvalidPrecommitAncestryProof or InvalidPrecommitAncestries.
NeededHeaderRemovedAsClaimed ==
    (pc = "done" /\ RemovedNeededHeader) =>
        verdict \in {"InvalidPrecommitAncestryProof", "InvalidPrecommitAncestries"}

\* C6 amended: removing a needed header from an accepted proof gives
\* InvalidJustificationCommit: commit validation resolves every vote's route
\* itself and is the first check to observe the gap.
NeededHeaderRemoved ==
    (pc = "done" /\ RemovedNeededHeader) =>
        /\ verdict = "InvalidJustificationCommit"
        /\ ~Ran("signature") /\ ~Ran("route") /\ ~Ran("ancestries")

NeededHeaderWitness ==
    /\ pc = "done"
    /\ RemovedNeededHeader
    /\ Len(justification.votes_ancestries) >= 2

\* ------------------------------------------------------------------- C7

\* C7 as claimed: every input that is not exactly the encoding of one
\* justification (empty, truncated, or followed by extra words) is rejected
\* with JustificationDecode and no later check runs.
DecodeAllOrNothing ==
    (pc = "done" /\ ~ExactEncoding(raw_justification)) =>
        /\ verdict = "JustificationDecode"
        /\ checks = <<Check("decode", 0)>>

\* ------------------------------------------------------------------ C10

\* C10 as claimed: the signatures of all votes are verified before any
\* vote's route is resolved.
AllSignaturesBeforeRoutes ==
    \A r, g \in DOMAIN checks :
       (checks[r].check = "route" /\ checks[g].check = "signature") => g < r

\* C10 amended: the votes are taken one at a time in list order, the
\* signature of a vote being verified before the route of that vote is
\* resolved and after the routes of the votes before it; and once decode,
\* target and commit checks pass, a vote whose signature does not verify
\* makes the call return InvalidAuthoritySignature, never
\* InvalidPrecommitAncestryProof.
SignaturesBeforeOwnRoutes ==
    /\ \A r \in DOMAIN checks :
          checks[r].check = "route" =>
             /\ r > 1
             /\ checks[r - 1] = Check("signature", checks[r].vote)
    /\ \A g, r \in DOMAIN checks :
          (checks[g].check = "signature" /\ checks[r].check = "route"
             /\ checks[r].vote < checks[g].vote) => r < g
    /\ ( /\ pc = "done"
         /\ Decode(raw_justification).ok
         /\ TargetMatches(Decoded(raw_justification), finalized_target)
         /\ CommitHasGhost(Decoded(raw_justification))
         /\ ~AllSignaturesVerify(Decoded(raw_justification), authorities_set_id) )
       => verdict = "InvalidAuthoritySignature"

\* A vote's route was resolved and a later vote's signature then failed.
LateSignatureWitness ==
    /\ pc = "done"
    /\ verdict = "InvalidAuthoritySignature"
    /\ Ran("route")

\* ------------------------------------------------------------------- C8

\* The chains of parent links from `block`, as sequences of hashes.
LinksFrom ==
    { p \in UNION { [1 .. n -> {ZeroHash} \cup Hashes] : n \in 1 .. (NumHashes + 2) } :
        /\ p[1] = block
        /\ \A k \in 1 .. (Len(p) - 1) :
              /\ p[k] # base
              /\ p[k] \in DOMAIN parents
              /\ p[k + 1] = parents[p[k]] }

\* C8: when the parent links from block reach base, ancestry returns the
\* hashes strictly between block and base, nearest to block first (the empty
\* route when block = base); when they reach a hash other than base that has
\* no entry, it returns NotDescendent; a returned route holds neither base
\* nor block.
AncestryReturnsRoute ==
    loop_pc = "done" =>
        /\ \A p \in LinksFrom :
              /\ p[Len(p)] = base =>
                    /\ loop_result = "Ok"
                    /\ route = SubSeq(p, 2, Len(p) - 1)
              /\ (p[Len(p)] # base /\ p[Len(p)] \notin DOMAIN parents) =>
                    loop_result = "NotDescendent"
        /\ block = base => (loop_result = "Ok" /\ route = <<>>)
        /\ loop_result = "Ok" =>
              \A k \in DOMAIN route : route[k] # base /\ route[k] # block

\* A route of two hashes was returned.
RouteWitness ==
    /\ loop_pc = "done"
    /\ loop_result = "Ok"
    /\ Len(route) >= 2

\* The recursive form of the loop used by verify_justification returns what
\* the loop returns.
WalkIsTheLoop ==
    loop_pc = "done" =>
        ancestry(parents, base, block) = [ok |-> loop_result = "Ok", route |-> route]

\* ------------------------------------------------------------------- C9

====
